---- MODULE Spec2Model ----
(***************************************************************************)
(* Event log storage of dagster (core/storage/event_log.py):               *)
(* InMemoryEventLogStorage, FilesystemEventLogStorage and the              *)
(* EventLogStorageWatchdog that tails a run's log file.                    *)
(*                                                                         *)
(* A log file is a sequence of bytes: pickle.dump writes one               *)
(* self-delimiting record after the other, and records differ in size, so  *)
(* a byte offset and a record count are different things.                  *)
(***************************************************************************)
EXTENDS Integers, Sequences, FiniteSets, TLC

(* ------------------------------ bounds --------------------------------- *)

\* Most records one run's log holds between two wipes.
MaxLen == 2
\* Cursors a caller passes range over -MaxBack .. MaxLen + 1.
MaxBack == 2

\* Most notifications waiting in the observer's event queue.
MaxQueue == 1

RunIds == {"A", "B"}
\* The threads that call a storage concurrently.
Threads == {"t1", "t2"}
\* The EventLogStorageWatchdog objects watch() can create, in this order.
WatchdogSeq == <<"w1", "w2">>
WatchdogIds == {WatchdogSeq[i] : i \in 1..Len(WatchdogSeq)}
\* The start cursors watch() is called with.
StartCursors == {0, 1}
\* What a callback returns: a terminal PipelineRunStatus or anything else.
Statuses == {"SUCCESS", "FAILURE", "other"}
\* Two event records whose pickles have different lengths.
Records == {"e1", "e2"}
Cursors == (0 - MaxBack)..(MaxLen + 1)

\* The value of files[run] when the run's log file does not exist.
NoFile == "NoFile"

VARIABLES
    _logs,         \* InMemoryEventLogStorage._logs: run_id -> sequence of records
    _lock,         \* InMemoryEventLogStorage._lock: run_id -> semaphore state
    files,         \* the base directory: run_id -> bytes of <run_id>.log, or NoFile
    file_cursors,  \* FilesystemEventLogStorage.file_cursors: run_id -> <<cursor, offset>>
    file_lock,     \* FilesystemEventLogStorage.file_lock: run_id -> semaphore state
    stored,        \* history: the records passed to store_event per run since the last wipe
    ret,           \* the last call of the sequential caller and what it returned
    _watchers,     \* FilesystemEventLogStorage._watchers: the run ids that have an entry
    handlers,      \* the observer's handlers of the watch on the base directory
    watchdogs,     \* the EventLogStorageWatchdog objects: _run_id, _cursor
    eventQueue,    \* the observer's queue of created/modified events (paths, by run id)
    obs,           \* the observer thread: where it is in dispatching one event
    delivered,     \* history: the records each watchdog passed to its callback
    stopped,       \* history: the watchdogs whose callback returned a terminal status
    raised,        \* history: the exception that escaped into the observer thread
    th             \* the threads that call a storage concurrently: position and locals

storeVars == <<_logs, _lock, files, file_cursors, file_lock, stored, ret>>
tailVars == <<_watchers, handlers, watchdogs, eventQueue, obs, delivered, stopped, raised>>
vars == <<_logs, _lock, files, file_cursors, file_lock, stored, ret,
          _watchers, handlers, watchdogs, eventQueue, obs, delivered, stopped, raised,
          th>>

(* --------------------------- pure functions ---------------------------- *)

Min(a, b) == IF a < b THEN a ELSE b
Max(a, b) == IF a > b THEN a ELSE b

\* pickle.dump(event, file_handle): the bytes of one record. The first byte
\* names the record, the rest is payload; "e2" is one byte longer than "e1".
PickleDump(event) == IF event = "e1" THEN <<"e1">> ELSE <<"e2", "pad">>

\* pickle.load(fd) with fd at byte offset off of data: the record that starts
\* there and the offset after it; EOFError at (or past) the end of the data or
\* inside a truncated record; UnpicklingError where no record starts.
PickleLoad(data, off) ==
    IF off >= Len(data) THEN [st |-> "EOFError"]
    ELSE IF data[off + 1] \notin Records THEN [st |-> "UnpicklingError"]
    ELSE IF off + Len(PickleDump(data[off + 1])) > Len(data) THEN [st |-> "EOFError"]
    ELSE [st |-> "ok", event |-> data[off + 1],
          off |-> off + Len(PickleDump(data[off + 1]))]

\* i = 0; while i < cursor: pickle.load(fd); i += 1  -- then fd.tell().
\* An exception of pickle.load (EOFError included) leaves the loop.
RECURSIVE SkipRecords(_, _, _)
SkipRecords(data, off, n) ==
    IF n <= 0 THEN [st |-> "ok", off |-> off]
    ELSE LET r == PickleLoad(data, off)
         IN  IF r.st = "ok" THEN SkipRecords(data, r.off, n - 1)
             ELSE [st |-> r.st]

\* try: while True: events.append(pickle.load(fd))  except EOFError: pass
RECURSIVE ReadToEOF(_, _)
ReadToEOF(data, off) ==
    LET r == PickleLoad(data, off)
    IN  IF r.st = "EOFError" THEN [st |-> "ok", events |-> <<>>]
        ELSE IF r.st # "ok" THEN [st |-> r.st]
        ELSE LET rest == ReadToEOF(data, r.off)
             IN  IF rest.st = "ok"
                 THEN [st |-> "ok", events |-> <<r.event>> \o rest.events]
                 ELSE rest

\* Mutant of AppendToFile: the file opened with 'wb', which truncates it.
MutAppendTruncates(f, event) == PickleDump(event)
\* The file after store_event's open(path, 'ab'), seek to the end, pickle.dump.
AppendToFile(f, event) ==
    IF f = NoFile THEN PickleDump(event) ELSE f \o PickleDump(event)

\* The with-open block of FilesystemEventLogStorage.get_logs_for_run on file
\* content f with cache entry fc = file_cursors[run_id]: the outcome, the
\* events and the cache entry afterwards.
\* Mutant of SeekOffset: the seek to the cached cursor (from the start of the
\* file at the least) instead of the cached offset.
MutSeekToCursor(fc) == Max(fc[1], 0)
SeekOffset(fc) == fc[2]
\* Mutant of CacheEntry: the offset taken before the records were skipped.
MutCacheEntryBeforeSkip(cursor, off) == <<cursor, 0>>
CacheEntry(cursor, off) == <<cursor, off>>
\* Mutant of ScanRead: the cache entry written before the records are skipped.
MutScanCachesBeforeSkip(f, fc, cursor) ==
    LET sk == SkipRecords(f, 0, cursor)
    IN  IF sk.st # "ok" THEN [st |-> sk.st, events |-> <<>>, fc |-> CacheEntry(cursor, 0)]
        ELSE LET rd == ReadToEOF(f, sk.off)
             IN  [st |-> rd.st,
                  events |-> IF rd.st = "ok" THEN rd.events ELSE <<>>,
                  fc |-> CacheEntry(cursor, sk.off)]
\* The branch of a cursor that is not the cached one: skip cursor records from
\* the start of the file, cache (cursor, fd.tell()), read to the end.
ScanRead(f, fc, cursor) ==
    LET sk == SkipRecords(f, 0, cursor)
    IN  IF sk.st # "ok" THEN [st |-> sk.st, events |-> <<>>, fc |-> fc]
        ELSE LET rd == ReadToEOF(f, sk.off)
             IN  [st |-> rd.st,
                  events |-> IF rd.st = "ok" THEN rd.events ELSE <<>>,
                  fc |-> CacheEntry(cursor, sk.off)]
\* The branch of the cached cursor: fd.seek(cached offset), read to the end.
SeekRead(f, fc) ==
    LET rd == ReadToEOF(f, SeekOffset(fc))
    IN  [st |-> rd.st, events |-> IF rd.st = "ok" THEN rd.events ELSE <<>>,
         fc |-> fc]
ReadLogFile(f, fc, cursor) ==
    IF f = NoFile THEN [st |-> "IOError", events |-> <<>>, fc |-> fc]
    ELSE IF cursor = fc[1] THEN SeekRead(f, fc)
    ELSE ScanRead(f, fc, cursor)

\* Python's seq[start:].
PySliceFrom(s, start) ==
    LET lo == IF start < 0 THEN Max(Len(s) + start, 0) ELSE Min(start, Len(s))
    IN  SubSeq(s, lo + 1, Len(s))

\* InMemoryEventLogStorage.get_logs_for_run: cursor = int(cursor) + 1, then
\* self._logs[run_id][cursor:].
SliceStart(cursor) == cursor + 1
InMemoryGetLogs(log, cursor) == PySliceFrom(log, SliceStart(cursor))

InMemoryIsPersistent == FALSE
FilesystemIsPersistent == TRUE

\* FilesystemEventLogStorage.logs_ready
logs_ready(run_id) == files[run_id] # NoFile

(* --------------------------- initial state ----------------------------- *)

\* defaultdict(EventLogSequence), defaultdict(gevent.lock.Semaphore) and
\* defaultdict(lambda: (0, 0)): every key reads as its default.
EmptyLogs == [r \in RunIds |-> <<>>]
FreshLocks == [r \in RunIds |-> "free"]
FreshCursors == [r \in RunIds |-> <<0, 0>>]
NoFiles == [r \in RunIds |-> NoFile]

\* A thread that is in no call. In a call: the call's arguments, the semaphore
\* it holds ("current": the one in the lock table; "orphan": one of a table
\* that wipe replaced), its open file (fd "live": the file at the run's path;
\* else the bytes of a file unlinked while open) and the offset it reads from.
ThreadIdle == [pc |-> "idle", run |-> "none", cursor |-> 0, event |-> "none",
               sem |-> "none", fd |-> "none", pos |-> 0, todo |-> {}]

\* A watchdog id watch() has not created yet. fetched is history: the records
\* all fetches of the watchdog returned.
NoWatchdog == [run |-> "none", cursor |-> 0, start |-> 0, fetched |-> <<>>]
\* The observer thread waiting on its event queue.
ObserverIdle == [pc |-> "idle", path |-> "none", todo |-> {}, cur |-> "none", batch |-> <<>>]

Init ==
    /\ _logs = EmptyLogs
    /\ _lock = FreshLocks
    /\ files = NoFiles
    /\ file_cursors = FreshCursors
    /\ file_lock = FreshLocks
    /\ stored = EmptyLogs
    /\ ret = [op |-> "none"]
    /\ _watchers = {}
    /\ handlers = {}
    /\ watchdogs = [w \in WatchdogIds |-> NoWatchdog]
    /\ eventQueue = <<>>
    /\ obs = ObserverIdle
    /\ delivered = [w \in WatchdogIds |-> <<>>]
    /\ stopped = {}
    /\ raised = "none"
    /\ th = [t \in Threads |-> ThreadIdle]

(* ------------------- sequential calls, both backends ------------------- *)
(* One caller applies the same call sequence to one instance of each       *)
(* backend. A call runs to completion: it takes the run's semaphore (free, *)
(* as no other call is in flight), runs the body and releases it.          *)

\* store_event(run_id, event) on both instances: the semaphore taken and
\* released, the record appended.
StoreEventBody(run_id, event) ==
    /\ Len(stored[run_id]) < MaxLen
    /\ _lock[run_id] = "free"
    /\ file_lock[run_id] = "free"
    /\ _logs' = [_logs EXCEPT ![run_id] = Append(@, event)]
    /\ files' = [files EXCEPT ![run_id] = AppendToFile(@, event)]
    /\ stored' = [stored EXCEPT ![run_id] = Append(@, event)]
    /\ UNCHANGED <<_lock, file_lock, file_cursors>>

StoreEvent(run_id, event) ==
    /\ StoreEventBody(run_id, event)
    /\ ret' = [op |-> "store_event", run |-> run_id]
    /\ UNCHANGED <<tailVars, th>>

\* get_logs_for_run(run_id, cursor) on both instances.
GetLogsForRun(run_id, cursor) ==
    /\ _lock[run_id] = "free"
    /\ file_lock[run_id] = "free"
    /\ LET rd == ReadLogFile(files[run_id], file_cursors[run_id], cursor)
       IN  /\ file_cursors' = [file_cursors EXCEPT ![run_id] = rd.fc]
           /\ ret' = [op |-> "get_logs_for_run", run |-> run_id, cursor |-> cursor,
                      mem |-> InMemoryGetLogs(_logs[run_id], cursor),
                      st |-> rd.st, fs |-> rd.events]
    /\ UNCHANGED <<_logs, _lock, files, file_lock, stored>>
    /\ UNCHANGED <<tailVars, th>>

\* wipe() on both instances.
InMemoryWipeLogs == EmptyLogs
\* Mutant of FilesystemWipeFiles: no file is unlinked.
MutWipeKeepsFiles == files
FilesystemWipeFiles == NoFiles
\* Mutant of FilesystemWipeCursors: the offset cache is not reset.
MutWipeKeepsCursors == file_cursors
FilesystemWipeCursors == FreshCursors
Wipe ==
    /\ _logs' = InMemoryWipeLogs
    /\ _lock' = FreshLocks
    /\ files' = FilesystemWipeFiles
    /\ file_lock' = FreshLocks
    /\ file_cursors' = FilesystemWipeCursors
    /\ stored' = EmptyLogs
    /\ ret' = [op |-> "wipe", had |-> {r \in RunIds : stored[r] # <<>>}]
    /\ UNCHANGED <<tailVars, th>>

Next ==
    \/ \E run_id \in RunIds, event \in Records : StoreEvent(run_id, event)
    \/ \E run_id \in RunIds, cursor \in Cursors : GetLogsForRun(run_id, cursor)
    \/ Wipe

Spec == Init /\ [][Next]_vars

(* ------------------------ tailing a run's log -------------------------- *)
(* The observer (watchdog.observers.Observer) is one thread: it takes one  *)
(* event from its queue and, holding the observer's lock, dispatches it to *)
(* a copy of the handlers of the watch, one after the other, skipping a    *)
(* handler that was removed meanwhile. A PatternMatchingEventHandler gets  *)
(* the event only if the event's path matches its pattern, the log path.   *)
(* An exception a handler raises leaves the thread's loop: the thread ends.*)
(* Writers and readers run in other threads; the body of store_event and   *)
(* of get_logs_for_run is one step, taken with the run's semaphore free.   *)

\* FilesystemEventLogStorage.filepath_for_run_id: one path per run id.
filepath_for_run_id(run_id) == run_id

Terminal(status) == status = "SUCCESS" \/ status = "FAILURE"

\* FilesystemEventLogStorage.watch(run_id, start_cursor, callback): a new
\* watchdog, scheduled on the base directory; its watch is stored under run_id.
\* schedule() takes the observer's lock, which the observer thread holds while
\* it dispatches an event.
Watch(w, run_id, start_cursor) ==
    /\ obs.pc \in {"idle", "dead"}
    /\ \E i \in 1..Len(WatchdogSeq) :
          /\ w = WatchdogSeq[i]
          /\ \A j \in 1..(i - 1) : watchdogs[WatchdogSeq[j]] # NoWatchdog
    /\ watchdogs[w] = NoWatchdog
    /\ watchdogs' = [watchdogs EXCEPT
                       ![w] = [run |-> run_id, cursor |-> start_cursor,
                               start |-> start_cursor, fetched |-> <<>>]]
    /\ handlers' = handlers \cup {w}
    /\ _watchers' = _watchers \cup {run_id}
    /\ UNCHANGED <<eventQueue, obs, delivered, stopped, raised>>
    /\ UNCHANGED <<storeVars, th>>

\* The emitter of the watch on the base directory queues a created or
\* modified event for an existing log file: any number of them per write,
\* any time after the write.
Notify(run_id) ==
    /\ \E w \in WatchdogIds : watchdogs[w] # NoWatchdog
    /\ files[run_id] # NoFile
    /\ Len(eventQueue) < MaxQueue
    /\ eventQueue' = Append(eventQueue, filepath_for_run_id(run_id))
    /\ UNCHANGED <<_watchers, handlers, watchdogs, obs, delivered, stopped, raised>>
    /\ UNCHANGED <<storeVars, th>>

\* The observer thread between two handlers of the event it dispatches.
AfterHandler(path, todo) ==
    IF todo = {} THEN ObserverIdle
    ELSE [pc |-> "dispatching", path |-> path, todo |-> todo, cur |-> "none",
          batch |-> <<>>]
\* The observer thread ended by an exception.
ObserverDead == [ObserverIdle EXCEPT !.pc = "dead"]

\* The observer takes the next event and copies the handlers of the watch.
Dispatch ==
    /\ obs.pc = "idle"
    /\ eventQueue # <<>>
    /\ eventQueue' = Tail(eventQueue)
    /\ obs' = AfterHandler(Head(eventQueue), handlers)
    /\ UNCHANGED <<_watchers, handlers, watchdogs, delivered, stopped, raised>>
    /\ UNCHANGED <<storeVars, th>>

\* Mutant of Routed: a handler without a pattern, called for every path.
MutRoutedAnyPath(h, path) == h \in handlers
\* Whether the observer calls on_created / on_modified of handler h for the
\* event at path: h is still registered, and the path matches h's pattern.
Routed(h, path) ==
    /\ h \in handlers
    /\ path = filepath_for_run_id(watchdogs[h].run)

\* A handler that was removed, or whose pattern the path does not match.
SkipHandler(h) ==
    /\ obs.pc = "dispatching"
    /\ h \in obs.todo
    /\ ~Routed(h, obs.path)
    /\ obs' = AfterHandler(obs.path, obs.todo \ {h})
    /\ UNCHANGED <<_watchers, handlers, watchdogs, eventQueue, delivered, stopped, raised>>
    /\ UNCHANGED <<storeVars, th>>

\* Mutant of AdvanceCursor: the cursor advanced by one per notification.
MutCursorAdvancedByOne(cursor, events) == cursor + 1
\* Mutant of AdvanceCursor: the cursor is not advanced.
MutCursorNotAdvanced(cursor, events) == cursor
\* self._cursor += len(events)
AdvanceCursor(cursor, events) == cursor + Len(events)

\* EventLogStorageWatchdog.on_created / on_modified of handler h: the check
\* of the path, then _process_log up to its loop: the fetch from the
\* watchdog's cursor and the advance of the cursor.
OnCreatedOrModified(h) ==
    /\ obs.pc = "dispatching"
    /\ h \in obs.todo
    /\ Routed(h, obs.path)
    /\ file_lock[watchdogs[h].run] = "free"
    /\ LET run_id == watchdogs[h].run
           rd == ReadLogFile(files[run_id], file_cursors[run_id], watchdogs[h].cursor)
       IN  /\ file_cursors' = [file_cursors EXCEPT ![run_id] = rd.fc]
           /\ IF obs.path # filepath_for_run_id(run_id)
              THEN /\ raised' = "CheckError in on_modified"
                   /\ obs' = ObserverDead
                   /\ UNCHANGED watchdogs
              ELSE IF rd.st # "ok"
              THEN /\ raised' = rd.st
                   /\ obs' = ObserverDead
                   /\ UNCHANGED watchdogs
              ELSE /\ watchdogs' = [watchdogs EXCEPT
                                      ![h].cursor = AdvanceCursor(@, rd.events),
                                      ![h].fetched = @ \o rd.events]
                   /\ obs' = IF rd.events = <<>>
                             THEN AfterHandler(obs.path, obs.todo \ {h})
                             ELSE [pc |-> "callbacks", path |-> obs.path,
                                   todo |-> obs.todo \ {h}, cur |-> h,
                                   batch |-> rd.events]
                   /\ UNCHANGED raised
    /\ UNCHANGED <<_watchers, handlers, eventQueue, delivered, stopped>>
    /\ UNCHANGED <<_logs, _lock, files, file_lock, stored, ret, th>>

\* FilesystemEventLogStorage.end_watch(run_id, handler): the subscription
\* state afterwards, or the KeyError of self._watchers[run_id] (no entry) or
\* of the observer's removal of a handler that is not registered.
end_watch(run_id, handler) ==
    IF run_id \notin _watchers \/ handler \notin handlers
    THEN [st |-> "KeyError", watchers |-> _watchers, handlers |-> handlers]
    ELSE [st |-> "ok", watchers |-> _watchers \ {run_id},
          handlers |-> handlers \ {handler}]

\* Mutant of BatchAfter: the loop left after the first record of the batch.
MutLoopEndsAfterFirst(batch, status) == <<>>
\* The records the loop of _process_log still has to pass to the callback after
\* the one at the head of batch: the loop has no break.
BatchAfter(batch, status) == Tail(batch)

\* One turn of the loop of _process_log: the callback gets the next record of
\* the batch and returns status; a terminal status calls end_watch.
Callback(status) ==
    /\ obs.pc = "callbacks"
    /\ LET h == obs.cur
           ew == end_watch(watchdogs[h].run, h)
           rest == BatchAfter(obs.batch, status)
       IN  /\ delivered' = [delivered EXCEPT ![h] = Append(@, Head(obs.batch))]
           /\ IF Terminal(status)
              THEN /\ stopped' = stopped \cup {h}
                   /\ _watchers' = ew.watchers
                   /\ handlers' = ew.handlers
                   /\ raised' = IF ew.st = "ok" THEN raised ELSE "KeyError in end_watch"
                   /\ obs' = IF ew.st # "ok" THEN ObserverDead
                             ELSE IF rest = <<>> THEN AfterHandler(obs.path, obs.todo)
                             ELSE [obs EXCEPT !.batch = rest]
              ELSE /\ obs' = IF rest = <<>> THEN AfterHandler(obs.path, obs.todo)
                             ELSE [obs EXCEPT !.batch = rest]
                   /\ UNCHANGED <<stopped, _watchers, handlers, raised>>
    /\ UNCHANGED <<watchdogs, eventQueue>>
    /\ UNCHANGED <<storeVars, th>>

\* The number of records stored in all runs.
RECURSIVE TotalStored(_)
TotalStored(runs) ==
    IF runs = {} THEN 0
    ELSE LET r == CHOOSE x \in runs : TRUE
         IN  Len(stored[r]) + TotalStored(runs \ {r})

\* store_event(run_id, event) by the thread that executes the run; the
\* writers store at most MaxLen records in all.
WriterStoreEvent(run_id, event) ==
    /\ TotalStored(RunIds) < MaxLen
    /\ StoreEventBody(run_id, event)
    /\ UNCHANGED ret
    /\ UNCHANGED <<tailVars, th>>

\* FilesystemEventLogStorage.get_logs_for_run(run_id, cursor) by a thread
\* other than the observer's: what it leaves behind is the offset cache.
ReaderGetLogs(run_id, cursor) ==
    /\ file_lock[run_id] = "free"
    /\ file_cursors' = [file_cursors EXCEPT
          ![run_id] = ReadLogFile(files[run_id], file_cursors[run_id], cursor).fc]
    /\ UNCHANGED <<_logs, _lock, files, file_lock, stored, ret>>
    /\ UNCHANGED <<tailVars, th>>

NextTail ==
    \/ \E run_id \in RunIds, event \in Records : WriterStoreEvent(run_id, event)
    \/ \E run_id \in RunIds, cursor \in 0..MaxLen : ReaderGetLogs(run_id, cursor)
    \/ \E w \in WatchdogIds, run_id \in RunIds, c \in StartCursors : Watch(w, run_id, c)
    \/ \E run_id \in RunIds : Notify(run_id)
    \/ Dispatch
    \/ \E h \in WatchdogIds : SkipHandler(h)
    \/ \E h \in WatchdogIds : OnCreatedOrModified(h)
    \/ \E status \in Statuses : Callback(status)

\* Writers, readers, watch() and the observer thread; no wipe.
SpecTail == Init /\ [][NextTail]_vars

(* ----------------------- tailing, a running observer ------------------- *)
(* Writers, watch() from cursor 0 and the observer thread, which takes its *)
(* next step whenever it has one: an event in its queue, a handler of the  *)
(* event left to call, a record of the batch left to pass on.              *)

\* A step of the observer thread.
ObserverStep ==
    \/ Dispatch
    \/ \E h \in WatchdogIds : SkipHandler(h)
    \/ \E h \in WatchdogIds : OnCreatedOrModified(h)
    \/ \E status \in Statuses : Callback(status)

NextTailLive ==
    \/ \E run_id \in RunIds, event \in Records : WriterStoreEvent(run_id, event)
    \/ \E w \in WatchdogIds, run_id \in RunIds : Watch(w, run_id, 0)
    \/ \E run_id \in RunIds : Notify(run_id)
    \/ ObserverStep

SpecTailLive == Init /\ [][NextTailLive]_vars /\ WF_vars(ObserverStep)

(* ------------------ tailing, notifications for any path --------------- *)

\* The path of the base directory, which is no run's log path: the emitter
\* reports the directory as modified when a file in it is created.
base_dir == "base_dir"

\* The emitter queues an event for a path that is not a log file's.
NotifyOtherPath ==
    /\ \E w \in WatchdogIds : watchdogs[w] # NoWatchdog
    /\ Len(eventQueue) < MaxQueue
    /\ eventQueue' = Append(eventQueue, base_dir)
    /\ UNCHANGED <<_watchers, handlers, watchdogs, obs, delivered, stopped, raised>>
    /\ UNCHANGED <<storeVars, th>>

NextTailPaths ==
    \/ NextTail
    \/ NotifyOtherPath

SpecTailPaths == Init /\ [][NextTailPaths]_vars

(* ----------------------- tailing, fetches that fail -------------------- *)
(* As above, with watch() from a cursor that can be past the end of the    *)
(* log.                                                                    *)

NextTailErr ==
    \/ NextTail
    \/ \E w \in WatchdogIds, run_id \in RunIds : Watch(w, run_id, MaxLen)

SpecTailErr == Init /\ [][NextTailErr]_vars

(* ---------------------- tailing, callbacks that raise ------------------ *)

\* One turn of the loop of _process_log in which self._cb(event) raises: the
\* exception leaves _process_log and on_created / on_modified.
CallbackRaises ==
    /\ obs.pc = "callbacks"
    /\ delivered' = [delivered EXCEPT ![obs.cur] = Append(@, Head(obs.batch))]
    /\ raised' = "exception in callback"
    /\ obs' = ObserverDead
    /\ UNCHANGED <<_watchers, handlers, watchdogs, eventQueue, stopped>>
    /\ UNCHANGED <<storeVars, th>>

NextTailRaise ==
    \/ NextTail
    \/ CallbackRaises

SpecTailRaise == Init /\ [][NextTailRaise]_vars

(* --------------------------- concurrent calls -------------------------- *)
(* Threads call store_event, get_logs_for_run and wipe of one              *)
(* FilesystemEventLogStorage and one InMemoryEventLogStorage. A call is a  *)
(* sequence of steps: taking the run's semaphore from the lock table,      *)
(* the statements of the body that read or write shared state, and the     *)
(* release of the semaphore the call took. wipe takes no semaphore.        *)
(* An open file stays readable after it is unlinked.                       *)
(* The two instances share nothing, so the threads of a behaviour call one *)
(* of them at a time: a call to one instance starts while the other is in  *)
(* its initial state.                                                      *)

\* The number of records in all log files / in all in-memory logs.
RECURSIVE TotalInFiles(_)
TotalInFiles(runs) ==
    IF runs = {} THEN 0
    ELSE LET r == CHOOSE x \in runs : TRUE
         IN  (IF files[r] = NoFile THEN 0 ELSE Len(ReadToEOF(files[r], 0).events))
                 + TotalInFiles(runs \ {r})
RECURSIVE TotalInMemory(_)
TotalInMemory(runs) ==
    IF runs = {} THEN 0
    ELSE LET r == CHOOSE x \in runs : TRUE
         IN  Len(_logs[r]) + TotalInMemory(runs \ {r})

\* Mutant of Acquire: one semaphore for all runs instead of one per run id.
MutAcquireOneSemaphore(table, run_id) == [r \in RunIds |-> "held"]
\* Mutant of Acquire: entering the with block does not take the semaphore.
MutAcquireNotExclusive(table, run_id) == table
\* with self.file_lock[run_id]: / with self._lock[run_id]:  -- entering takes
\* the semaphore the table holds for the run, once it is free.
Acquire(table, run_id) == [table EXCEPT ![run_id] = "held"]
\* Leaving the with block releases the semaphore that was taken: the one in
\* the table, unless wipe has replaced the table since.
Release(table, t) ==
    IF th[t].sem = "current" THEN [table EXCEPT ![th[t].run] = "free"] ELSE table

\* The bytes thread t reads through its open file.
FdData(t) == IF th[t].fd = "live" THEN files[th[t].run] ELSE th[t].fd

\* The threads' view after a lock table was replaced: a semaphore of the old
\* table is still held by the thread that took it, in no table any more.
OrphanSemaphores(pcs) ==
    [t \in Threads |->
        IF th[t].pc \in pcs /\ th[t].sem = "current"
        THEN [th[t] EXCEPT !.sem = "orphan"] ELSE th[t]]

FsPcs == {"fs_store", "fs_get_open", "fs_get_check", "fs_get_seek", "fs_get_scan",
          "fs_get_read"}
MemPcs == {"mem_store", "mem_get"}

\* The instance is as constructed and no thread is in a call to it.
InMemoryUntouched ==
    /\ _logs = EmptyLogs /\ _lock = FreshLocks
    /\ \A t \in Threads : th[t].pc \notin MemPcs \cup {"mem_wipe_lock"}
FilesystemUntouched ==
    /\ files = NoFiles /\ file_cursors = FreshCursors /\ file_lock = FreshLocks
    /\ \A t \in Threads :
          th[t].pc \notin FsPcs \cup {"fs_wipe_unlink", "fs_wipe_cursors"}

\* FilesystemEventLogStorage.store_event: with self.file_lock[run_id]
FsStoreAcquireBody(t, run_id, event) ==
    /\ th[t].pc = "idle"
    /\ InMemoryUntouched
    /\ TotalInFiles(RunIds) < MaxLen
    /\ file_lock[run_id] = "free"
    /\ file_lock' = Acquire(file_lock, run_id)
    /\ th' = [th EXCEPT ![t] = [ThreadIdle EXCEPT !.pc = "fs_store", !.run = run_id,
                                  !.event = event, !.sem = "current"]]
    /\ UNCHANGED <<_logs, _lock, files, file_cursors, ret, tailVars>>
FsStoreAcquire(t, run_id, event) ==
    FsStoreAcquireBody(t, run_id, event) /\ UNCHANGED stored

\* ... open 'ab', seek to the end, pickle.dump, close; the semaphore released.
\* The record reaches the file in one write, when the file is closed.
FsStoreAppend(t) ==
    /\ th[t].pc = "fs_store"
    /\ files' = [files EXCEPT ![th[t].run] = AppendToFile(@, th[t].event)]
    /\ file_lock' = Release(file_lock, t)
    /\ th' = [th EXCEPT ![t] = ThreadIdle]
    /\ UNCHANGED <<_logs, _lock, file_cursors, stored, ret, tailVars>>

\* FilesystemEventLogStorage.get_logs_for_run: with self.file_lock[run_id]
FsGetAcquire(t, run_id, cursor) ==
    /\ th[t].pc = "idle"
    /\ InMemoryUntouched
    /\ file_lock[run_id] = "free"
    /\ file_lock' = Acquire(file_lock, run_id)
    /\ th' = [th EXCEPT ![t] = [ThreadIdle EXCEPT !.pc = "fs_get_open", !.run = run_id,
                                  !.cursor = cursor, !.sem = "current"]]
    /\ UNCHANGED <<_logs, _lock, files, file_cursors, stored, ret, tailVars>>

\* ... open(path, 'rb'): an IOError when the file does not exist.
FsGetOpen(t) ==
    /\ th[t].pc = "fs_get_open"
    /\ IF files[th[t].run] = NoFile
       THEN /\ file_lock' = Release(file_lock, t)
            /\ th' = [th EXCEPT ![t] = ThreadIdle]
       ELSE /\ th' = [th EXCEPT ![t].pc = "fs_get_check", ![t].fd = "live"]
            /\ UNCHANGED file_lock
    /\ UNCHANGED <<_logs, _lock, files, file_cursors, stored, ret, tailVars>>

\* ... if cursor == self.file_cursors[run_id][0]
FsGetCheck(t) ==
    /\ th[t].pc = "fs_get_check"
    /\ th' = [th EXCEPT ![t].pc = IF th[t].cursor = file_cursors[th[t].run][1]
                                  THEN "fs_get_seek" ELSE "fs_get_scan"]
    /\ UNCHANGED <<storeVars, tailVars>>

\* ... fd.seek(self.file_cursors[run_id][1])
FsGetSeek(t) ==
    /\ th[t].pc = "fs_get_seek"
    /\ th' = [th EXCEPT ![t].pc = "fs_get_read",
                        ![t].pos = SeekOffset(file_cursors[th[t].run])]
    /\ UNCHANGED <<storeVars, tailVars>>

\* ... the skip loop and self.file_cursors[run_id] = (cursor, fd.tell()); an
\* exception of pickle.load leaves the call.
FsGetScan(t) ==
    /\ th[t].pc = "fs_get_scan"
    /\ LET sk == SkipRecords(FdData(t), 0, th[t].cursor)
       IN  IF sk.st # "ok"
           THEN /\ file_lock' = Release(file_lock, t)
                /\ th' = [th EXCEPT ![t] = ThreadIdle]
                /\ UNCHANGED file_cursors
           ELSE /\ file_cursors' = [file_cursors EXCEPT
                                      ![th[t].run] = CacheEntry(th[t].cursor, sk.off)]
                /\ th' = [th EXCEPT ![t].pc = "fs_get_read", ![t].pos = sk.off]
                /\ UNCHANGED file_lock
    /\ UNCHANGED <<_logs, _lock, files, stored, ret, tailVars>>

\* ... the read loop to the end of the file; the file closed, the semaphore
\* released, the events returned.
FsGetReadBody(t) ==
    /\ th[t].pc = "fs_get_read"
    /\ file_lock' = Release(file_lock, t)
    /\ th' = [th EXCEPT ![t] = ThreadIdle]
    /\ UNCHANGED <<_logs, _lock, files, file_cursors, stored, tailVars>>
FsGetRead(t) == FsGetReadBody(t) /\ UNCHANGED ret

\* FilesystemEventLogStorage.wipe: glob.glob(<base_dir>/*.log)
FsWipeGlob(t) ==
    /\ th[t].pc = "idle"
    /\ InMemoryUntouched
    /\ th' = [th EXCEPT ![t] = [ThreadIdle EXCEPT
                                  !.pc = "fs_wipe_unlink",
                                  !.todo = {r \in RunIds : files[r] # NoFile}]]
    /\ UNCHANGED <<storeVars, tailVars>>

\* ... os.unlink(filename) of the next file of the list: the path is gone, a
\* thread that has the file open keeps its bytes. Unlinking a file that is
\* already gone raises, and wipe ends there.
FsWipeUnlink(t, run_id) ==
    /\ th[t].pc = "fs_wipe_unlink"
    /\ run_id \in th[t].todo
    /\ IF files[run_id] = NoFile
       THEN /\ th' = [th EXCEPT ![t] = ThreadIdle]
            /\ UNCHANGED files
       ELSE /\ files' = [files EXCEPT ![run_id] = NoFile]
            /\ th' = [u \in Threads |->
                        IF u = t THEN [th[t] EXCEPT !.todo = @ \ {run_id}]
                        ELSE IF th[u].run = run_id /\ th[u].fd = "live"
                        THEN [th[u] EXCEPT !.fd = files[run_id]]
                        ELSE th[u]]
    /\ UNCHANGED <<_logs, _lock, file_cursors, file_lock, stored, ret, tailVars>>

\* ... self.file_lock = defaultdict(gevent.lock.Semaphore)
FsWipeLocks(t) ==
    /\ th[t].pc = "fs_wipe_unlink"
    /\ th[t].todo = {}
    /\ file_lock' = FreshLocks
    /\ th' = [OrphanSemaphores(FsPcs) EXCEPT ![t].pc = "fs_wipe_cursors"]
    /\ UNCHANGED <<_logs, _lock, files, file_cursors, stored, ret, tailVars>>

\* ... self.file_cursors = defaultdict(lambda: (0, 0))
FsWipeCursors(t) ==
    /\ th[t].pc = "fs_wipe_cursors"
    /\ file_cursors' = FilesystemWipeCursors
    /\ th' = [th EXCEPT ![t] = ThreadIdle]
    /\ UNCHANGED <<_logs, _lock, files, file_lock, stored, ret, tailVars>>

\* InMemoryEventLogStorage.store_event: with self._lock[run_id]
MemStoreAcquireBody(t, run_id, event) ==
    /\ th[t].pc = "idle"
    /\ FilesystemUntouched
    /\ TotalInMemory(RunIds) < MaxLen
    /\ _lock[run_id] = "free"
    /\ _lock' = Acquire(_lock, run_id)
    /\ th' = [th EXCEPT ![t] = [ThreadIdle EXCEPT !.pc = "mem_store", !.run = run_id,
                                  !.event = event, !.sem = "current"]]
    /\ UNCHANGED <<_logs, files, file_cursors, file_lock, ret, tailVars>>
MemStoreAcquire(t, run_id, event) ==
    MemStoreAcquireBody(t, run_id, event) /\ UNCHANGED stored

\* ... self._logs[run_id] = self._logs[run_id].append(event); the semaphore
\* released.
MemStoreAppend(t) ==
    /\ th[t].pc = "mem_store"
    /\ _logs' = [_logs EXCEPT ![th[t].run] = Append(@, th[t].event)]
    /\ _lock' = Release(_lock, t)
    /\ th' = [th EXCEPT ![t] = ThreadIdle]
    /\ UNCHANGED <<files, file_cursors, file_lock, stored, ret, tailVars>>

\* InMemoryEventLogStorage.get_logs_for_run: with self._lock[run_id]
MemGetAcquire(t, run_id, cursor) ==
    /\ th[t].pc = "idle"
    /\ FilesystemUntouched
    /\ _lock[run_id] = "free"
    /\ _lock' = Acquire(_lock, run_id)
    /\ th' = [th EXCEPT ![t] = [ThreadIdle EXCEPT !.pc = "mem_get", !.run = run_id,
                                  !.cursor = cursor, !.sem = "current"]]
    /\ UNCHANGED <<_logs, files, file_cursors, file_lock, stored, ret, tailVars>>

\* ... return self._logs[run_id][cursor:]; the semaphore released.
MemGetReturnBody(t) ==
    /\ th[t].pc = "mem_get"
    /\ _lock' = Release(_lock, t)
    /\ th' = [th EXCEPT ![t] = ThreadIdle]
    /\ UNCHANGED <<_logs, files, file_cursors, file_lock, stored, tailVars>>
MemGetReturn(t) == MemGetReturnBody(t) /\ UNCHANGED ret

\* InMemoryEventLogStorage.wipe: self._logs = defaultdict(EventLogSequence)
MemWipeLogs(t) ==
    /\ th[t].pc = "idle"
    /\ FilesystemUntouched
    /\ _logs' = InMemoryWipeLogs
    /\ th' = [th EXCEPT ![t].pc = "mem_wipe_lock"]
    /\ UNCHANGED <<_lock, files, file_cursors, file_lock, stored, ret, tailVars>>

\* ... self._lock = defaultdict(gevent.lock.Semaphore)
MemWipeLocks(t) ==
    /\ th[t].pc = "mem_wipe_lock"
    /\ _lock' = FreshLocks
    /\ th' = [OrphanSemaphores(MemPcs) EXCEPT ![t] = ThreadIdle]
    /\ UNCHANGED <<_logs, files, file_cursors, file_lock, stored, ret, tailVars>>

NextConc ==
    \/ \E t \in Threads, run_id \in RunIds, event \in Records :
          FsStoreAcquire(t, run_id, event)
    \/ \E t \in Threads : FsStoreAppend(t)
    \/ \E t \in Threads, run_id \in RunIds, cursor \in 0..MaxLen :
          FsGetAcquire(t, run_id, cursor)
    \/ \E t \in Threads : FsGetOpen(t)
    \/ \E t \in Threads : FsGetCheck(t)
    \/ \E t \in Threads : FsGetSeek(t)
    \/ \E t \in Threads : FsGetScan(t)
    \/ \E t \in Threads : FsGetRead(t)
    \/ \E t \in Threads : FsWipeGlob(t)
    \/ \E t \in Threads, run_id \in RunIds : FsWipeUnlink(t, run_id)
    \/ \E t \in Threads : FsWipeLocks(t)
    \/ \E t \in Threads : FsWipeCursors(t)
    \/ \E t \in Threads, run_id \in RunIds, event \in Records :
          MemStoreAcquire(t, run_id, event)
    \/ \E t \in Threads : MemStoreAppend(t)
    \/ \E t \in Threads, run_id \in RunIds, cursor \in -1..MaxLen :
          MemGetAcquire(t, run_id, cursor)
    \/ \E t \in Threads : MemGetReturn(t)
    \/ \E t \in Threads : MemWipeLogs(t)
    \/ \E t \in Threads : MemWipeLocks(t)

\* Concurrent callers of both storages, wipe included.
SpecConc == Init /\ [][NextConc]_vars

(* ------------------ concurrent calls, with their history --------------- *)
(* The calls of store_event and get_logs_for_run as above, without wipe.   *)
(* stored[run_id] holds the records of the store_event calls for run_id in *)
(* the order in which the calls took the run's semaphore; ret holds the    *)
(* call that returned last and what it returned.                           *)

\* store_event of either storage, recorded when it takes the semaphore.
FsStoreAcquireRecorded(t, run_id, event) ==
    /\ FsStoreAcquireBody(t, run_id, event)
    /\ stored' = [stored EXCEPT ![run_id] = Append(@, event)]
MemStoreAcquireRecorded(t, run_id, event) ==
    /\ MemStoreAcquireBody(t, run_id, event)
    /\ stored' = [stored EXCEPT ![run_id] = Append(@, event)]

\* get_logs_for_run of either storage, recorded when it returns: the read
\* loop from the offset the call seeked or scanned to; the slice of the log.
FsGetReadRecorded(t) ==
    /\ FsGetReadBody(t)
    /\ LET rd == ReadToEOF(FdData(t), th[t].pos)
       IN  ret' = [op |-> "fs.get_logs_for_run", run |-> th[t].run,
                   cursor |-> th[t].cursor, st |-> rd.st,
                   events |-> IF rd.st = "ok" THEN rd.events ELSE <<>>]
MemGetReturnRecorded(t) ==
    /\ MemGetReturnBody(t)
    /\ ret' = [op |-> "mem.get_logs_for_run", run |-> th[t].run,
               cursor |-> th[t].cursor, st |-> "ok",
               events |-> InMemoryGetLogs(_logs[th[t].run], th[t].cursor)]

NextCalls ==
    \/ \E t \in Threads, run_id \in RunIds, event \in Records :
          FsStoreAcquireRecorded(t, run_id, event)
    \/ \E t \in Threads : FsStoreAppend(t)
    \/ \E t \in Threads, run_id \in RunIds, cursor \in 0..MaxLen :
          FsGetAcquire(t, run_id, cursor)
    \/ \E t \in Threads : FsGetOpen(t)
    \/ \E t \in Threads : FsGetCheck(t)
    \/ \E t \in Threads : FsGetSeek(t)
    \/ \E t \in Threads : FsGetScan(t)
    \/ \E t \in Threads : FsGetReadRecorded(t)
    \/ \E t \in Threads, run_id \in RunIds, event \in Records :
          MemStoreAcquireRecorded(t, run_id, event)
    \/ \E t \in Threads : MemStoreAppend(t)
    \/ \E t \in Threads, run_id \in RunIds, cursor \in -1..MaxLen :
          MemGetAcquire(t, run_id, cursor)
    \/ \E t \in Threads : MemGetReturnRecorded(t)

\* Concurrent callers of store_event and get_logs_for_run; no wipe.
SpecCalls == Init /\ [][NextCalls]_vars

(* ------------- tailing, callbacks that call the storage ---------------- *)
(* The observer thread's fetch in two steps, taking the run's semaphore    *)
(* and the rest of get_logs_for_run, and callbacks that call store_event   *)
(* or get_logs_for_run for the run they watch before they return; other    *)
(* threads call store_event step by step. No wipe.                         *)

\* The run of the watchdog the observer thread is in.
ObsRun == watchdogs[obs.cur].run

\* _process_log: get_logs_for_run(self._run_id, self._cursor) entering
\* with self.file_lock[run_id].
ObsFetchAcquire(h) ==
    /\ obs.pc = "dispatching"
    /\ h \in obs.todo
    /\ Routed(h, obs.path)
    /\ file_lock[watchdogs[h].run] = "free"
    /\ file_lock' = Acquire(file_lock, watchdogs[h].run)
    /\ obs' = [obs EXCEPT !.pc = "fetching", !.cur = h, !.todo = @ \ {h}]
    /\ UNCHANGED <<_watchers, handlers, watchdogs, eventQueue, delivered, stopped, raised>>
    /\ UNCHANGED <<_logs, _lock, files, file_cursors, stored, ret, th>>

\* Mutant of ReleaseAfterFetch: the semaphore kept while the callbacks run.
MutLockKeptForCallbacks(table, run_id) == table
\* The with block of get_logs_for_run is left, by return events or by an
\* exception, before _process_log goes on.
ReleaseAfterFetch(table, run_id) == [table EXCEPT ![run_id] = "free"]

\* ... the rest of get_logs_for_run, self._cursor += len(events), and the
\* loop entered.
ObsFetchReturn ==
    /\ obs.pc = "fetching"
    /\ LET h == obs.cur
           rd == ReadLogFile(files[ObsRun], file_cursors[ObsRun], watchdogs[h].cursor)
       IN  /\ file_cursors' = [file_cursors EXCEPT ![ObsRun] = rd.fc]
           /\ file_lock' = ReleaseAfterFetch(file_lock, ObsRun)
           /\ IF rd.st # "ok"
              THEN /\ raised' = rd.st
                   /\ obs' = ObserverDead
                   /\ UNCHANGED watchdogs
              ELSE /\ watchdogs' = [watchdogs EXCEPT
                                      ![h].cursor = AdvanceCursor(@, rd.events),
                                      ![h].fetched = @ \o rd.events]
                   /\ obs' = IF rd.events = <<>>
                             THEN AfterHandler(obs.path, obs.todo)
                             ELSE [obs EXCEPT !.pc = "callbacks", !.batch = rd.events]
                   /\ UNCHANGED raised
    /\ UNCHANGED <<_watchers, handlers, eventQueue, delivered, stopped>>
    /\ UNCHANGED <<_logs, _lock, files, stored, ret, th>>

\* self._cb(event) calls store_event(run_id, ...) for the watched run:
\* with self.file_lock[run_id]
CbStoreAcquire ==
    /\ obs.pc = "callbacks"
    /\ TotalInFiles(RunIds) < MaxLen
    /\ file_lock[ObsRun] = "free"
    /\ file_lock' = Acquire(file_lock, ObsRun)
    /\ obs' = [obs EXCEPT !.pc = "cb_store"]
    /\ UNCHANGED <<_watchers, handlers, watchdogs, eventQueue, delivered, stopped, raised>>
    /\ UNCHANGED <<_logs, _lock, files, file_cursors, stored, ret, th>>

\* ... the record appended, the semaphore released; back in the callback.
CbStoreAppend(event) ==
    /\ obs.pc = "cb_store"
    /\ files' = [files EXCEPT ![ObsRun] = AppendToFile(@, event)]
    /\ file_lock' = [file_lock EXCEPT ![ObsRun] = "free"]
    /\ obs' = [obs EXCEPT !.pc = "callbacks"]
    /\ UNCHANGED <<_watchers, handlers, watchdogs, eventQueue, delivered, stopped, raised>>
    /\ UNCHANGED <<_logs, _lock, file_cursors, stored, ret, th>>

\* self._cb(event) calls get_logs_for_run(run_id, cursor) for the watched run:
\* with self.file_lock[run_id]
CbGetAcquire ==
    /\ obs.pc = "callbacks"
    /\ file_lock[ObsRun] = "free"
    /\ file_lock' = Acquire(file_lock, ObsRun)
    /\ obs' = [obs EXCEPT !.pc = "cb_get"]
    /\ UNCHANGED <<_watchers, handlers, watchdogs, eventQueue, delivered, stopped, raised>>
    /\ UNCHANGED <<_logs, _lock, files, file_cursors, stored, ret, th>>

\* ... the read, the semaphore released; back in the callback, which lets an
\* exception of the read pass.
CbGetReturn(cursor) ==
    /\ obs.pc = "cb_get"
    /\ LET rd == ReadLogFile(files[ObsRun], file_cursors[ObsRun], cursor)
       IN  /\ file_cursors' = [file_cursors EXCEPT ![ObsRun] = rd.fc]
           /\ file_lock' = [file_lock EXCEPT ![ObsRun] = "free"]
           /\ IF rd.st # "ok"
              THEN /\ raised' = "exception in callback"
                   /\ obs' = ObserverDead
              ELSE /\ obs' = [obs EXCEPT !.pc = "callbacks"]
                   /\ UNCHANGED raised
    /\ UNCHANGED <<_watchers, handlers, watchdogs, eventQueue, delivered, stopped>>
    /\ UNCHANGED <<_logs, _lock, files, stored, ret, th>>

NextReenter ==
    \/ \E t \in Threads, run_id \in RunIds, event \in Records :
          FsStoreAcquire(t, run_id, event)
    \/ \E t \in Threads : FsStoreAppend(t)
    \/ \E w \in WatchdogIds, run_id \in RunIds : Watch(w, run_id, 0)
    \/ \E run_id \in RunIds : Notify(run_id)
    \/ Dispatch
    \/ \E h \in WatchdogIds : SkipHandler(h)
    \/ \E h \in WatchdogIds : ObsFetchAcquire(h)
    \/ ObsFetchReturn
    \/ CbStoreAcquire
    \/ \E event \in Records : CbStoreAppend(event)
    \/ CbGetAcquire
    \/ \E cursor \in 0..MaxLen : CbGetReturn(cursor)
    \/ \E status \in Statuses : Callback(status)

SpecReenter == Init /\ [][NextReenter]_vars

(* ------------------------------- claims -------------------------------- *)

FsRead(run_id, cursor) == ReadLogFile(files[run_id], file_cursors[run_id], cursor)
MemRead(run_id, cursor) == InMemoryGetLogs(_logs[run_id], cursor)

\* C1 as stated: for every run id, the in-memory read from cursor -1 and the
\* filesystem read from cursor 0 return exactly the records passed to
\* store_event for it, in call order.
C1_CompletenessEveryRun ==
    \A run_id \in RunIds :
        /\ MemRead(run_id, -1) = stored[run_id]
        /\ FsRead(run_id, 0).st = "ok"
        /\ FsRead(run_id, 0).events = stored[run_id]

\* C1 amended: the in-memory read from cursor -1 returns exactly the records
\* stored for the run, in call order; the filesystem read from cursor 0 does
\* so for every run that had at least one store_event, and raises IOError (no
\* such file) for a run that had none.
C1_Completeness ==
    \A run_id \in RunIds :
        /\ MemRead(run_id, -1) = stored[run_id]
        /\ stored[run_id] # <<>> =>
              /\ FsRead(run_id, 0).st = "ok"
              /\ FsRead(run_id, 0).events = stored[run_id]
        /\ stored[run_id] = <<>> => FsRead(run_id, 0).st = "IOError"

C1_Witness ==
    /\ ret.op = "get_logs_for_run" /\ ret.cursor = 0 /\ ret.st = "ok"
    /\ ret.fs = <<"e2", "e1">> /\ ret.fs = stored[ret.run]
    /\ \A run_id \in RunIds : stored[run_id] # <<>>

\* C2: a read with cursor c, on either backend, returns exactly the records at
\* zero-indexed positions c+1 .. end of the run's log (checked for the runs
\* that have a log and the cursors -1 .. length-1).
C2_CursorContract ==
    \A run_id \in {r \in RunIds : stored[r] # <<>>} :
        \A c \in -1..(Len(stored[run_id]) - 1) :
            LET suffix == SubSeq(stored[run_id], c + 2, Len(stored[run_id]))
            IN  /\ MemRead(run_id, c) = suffix
                /\ FsRead(run_id, c).st = "ok"
                /\ FsRead(run_id, c).events = suffix

\* C6: the read the caller just made, made again with nothing in between,
\* returns the same on both backends: the same records, or the same error.
C6_ReadIdempotent ==
    ret.op = "get_logs_for_run" =>
        /\ MemRead(ret.run, ret.cursor) = ret.mem
        /\ FsRead(ret.run, ret.cursor).st = ret.st
        /\ FsRead(ret.run, ret.cursor).events = ret.fs

\* The first read scanned and filled the cache, so that the second one seeks.
C6_Witness ==
    /\ ret.op = "get_logs_for_run" /\ ret.cursor = 1 /\ ret.st = "ok"
    /\ file_cursors[ret.run] = <<1, 2>>
    /\ ret.fs = <<"e1">>

\* A read with a cold cache: skip cursor records from the start of the file.
ColdRead(run_id, cursor) ==
    IF files[run_id] = NoFile THEN [st |-> "IOError", events |-> <<>>]
    ELSE LET rd == ScanRead(files[run_id], <<0, 0>>, cursor)
         IN  [st |-> rd.st, events |-> rd.events]

\* C7: in every state, a read with any cursor returns what a cold-cache read
\* of the same file returns, and the cached (c, off) is the byte offset of the
\* end of the c-th record of the run's current file.
C7_CacheTransparent ==
    \A run_id \in RunIds :
        /\ \A c \in Cursors :
              /\ FsRead(run_id, c).st = ColdRead(run_id, c).st
              /\ FsRead(run_id, c).events = ColdRead(run_id, c).events
        /\ IF files[run_id] = NoFile THEN file_cursors[run_id] = <<0, 0>>
           ELSE SkipRecords(files[run_id], 0, file_cursors[run_id][1])
                    = [st |-> "ok", off |-> file_cursors[run_id][2]]

\* Both runs read through a cache entry in the middle of their files.
C7_Witness ==
    /\ ret.op = "get_logs_for_run" /\ ret.cursor = 1 /\ ret.fs = <<"e2">>
    /\ file_cursors[ret.run] = <<1, 1>>
    /\ \E other \in RunIds \ {ret.run} : file_cursors[other] = <<2, 3>>

\* C8: right after wipe(), on every run the in-memory read returns no record
\* for any cursor, the filesystem read raises IOError (no such file) for any
\* cursor, logs_ready is false, and is_persistent is False (in-memory) and
\* True (filesystem).
C8_WipeCompleteness ==
    ret.op = "wipe" =>
        /\ \A run_id \in RunIds, c \in Cursors :
              /\ MemRead(run_id, c) = <<>>
              /\ FsRead(run_id, c).st = "IOError"
              /\ ~logs_ready(run_id)
        /\ ~InMemoryIsPersistent
        /\ FilesystemIsPersistent

\* A wipe of a storage in which every run had events.
C8_Witness == ret.op = "wipe" /\ ret.had = RunIds

IsPrefix(s, t) == Len(s) <= Len(t) /\ s = SubSeq(t, 1, Len(s))

\* C3: under any interleaving of store_event calls and notifications, the
\* records a watchdog started at cursor 0 has passed to its callback are a
\* prefix of the run's log in append order: none twice, none out of order.
C3_TailPrefix ==
    \A w \in WatchdogIds :
        (watchdogs[w] # NoWatchdog /\ watchdogs[w].start = 0) =>
            IsPrefix(delivered[w], stored[watchdogs[w].run])

\* Two writes delivered, in order, with one more notification for the same
\* file waiting in the queue.
C3_Witness ==
    \E w \in WatchdogIds :
        /\ watchdogs[w] # NoWatchdog /\ watchdogs[w].start = 0
        /\ delivered[w] = <<"e2", "e1">>
        /\ stored[watchdogs[w].run] = <<"e2", "e1">>
        /\ w \in handlers
        /\ eventQueue = <<filepath_for_run_id(watchdogs[w].run)>>

\* C4: once a callback of a watchdog has returned SUCCESS or FAILURE, the
\* watchdog is unsubscribed and no further record is passed to its callback.
C4_StopIsFinal ==
    [][\A w \in WatchdogIds :
          w \in stopped => (w \notin handlers /\ delivered'[w] = delivered[w])]_vars

\* C5: end_watch for a watchdog that is already unsubscribed raises no error.
C5_EndWatchNeverRaises == raised # "KeyError in end_watch"

\* No thread is in a call.
Quiescent == \A t \in Threads : th[t].pc = "idle"

\* C9: whenever no call is in flight (any wipe has completed), no
\* file_cursors entry holds an offset of a file that no longer is the run's
\* file: every read returns what a scan of the run's current file returns.
C9_NoStaleOffsets ==
    Quiescent =>
        \A run_id \in RunIds, c \in Cursors :
            /\ FsRead(run_id, c).st = ColdRead(run_id, c).st
            /\ FsRead(run_id, c).events = ColdRead(run_id, c).events

\* The threads inside the with block of a semaphore of the run.
InFsSection(run_id) == {t \in Threads : th[t].pc \in FsPcs /\ th[t].run = run_id}
InMemSection(run_id) == {t \in Threads : th[t].pc \in MemPcs /\ th[t].run = run_id}

\* C10: for each run id, at most one thread is inside the locked section of
\* store_event or get_logs_for_run, in the filesystem and in the in-memory
\* storage.
C10_MutualExclusion ==
    \A run_id \in RunIds :
        /\ Cardinality(InFsSection(run_id)) <= 1
        /\ Cardinality(InMemSection(run_id)) <= 1

\* C11: without wipe, a get_logs_for_run from the beginning that runs
\* concurrently with store_event calls for the run returns a prefix of the
\* records in the order in which their store_event calls took the run's
\* semaphore: no record of a call that has not taken it, none out of order.
C11_PrefixOfLockOrder ==
    (/\ ret.op \in {"fs.get_logs_for_run", "mem.get_logs_for_run"}
     /\ ret.cursor = (IF ret.op = "fs.get_logs_for_run" THEN 0 ELSE -1)) =>
        /\ ret.st = "ok"
        /\ IsPrefix(ret.events, stored[ret.run])

\* A read that returned while the second store_event for the run was waiting
\* for the semaphore; that call holds it now and has not appended yet.
C11_Witness ==
    /\ ret.op = "fs.get_logs_for_run" /\ ret.cursor = 0
    /\ ret.events = <<"e2">>
    /\ stored[ret.run] = <<"e2", "e1">>
    /\ \E t \in Threads : th[t].pc = "fs_store" /\ th[t].run = ret.run

\* The run id of the call in which thread t takes the step.
CallRun(t) == IF th[t].pc = "idle" THEN th'[t].run ELSE th[t].run

\* Thread t takes a step of a store_event call.
StoreStep(t) ==
    \/ th[t].pc \in {"fs_store", "mem_store"}
    \/ th'[t].pc \in {"fs_store", "mem_store"}

\* C12: a step of a store_event or get_logs_for_run call for run A, on either
\* storage, leaves every other run B as it was: B's log and file, B's
\* semaphores and B's file_cursors entry; and a step of store_event leaves
\* what a read of B returns unchanged for every cursor.
C12_RunIsolation ==
    [][\A t \in Threads, B \in RunIds :
          (th'[t] # th[t] /\ CallRun(t) # B) =>
              /\ _logs'[B] = _logs[B]
              /\ files'[B] = files[B]
              /\ _lock'[B] = _lock[B]
              /\ file_lock'[B] = file_lock[B]
              /\ file_cursors'[B] = file_cursors[B]
              /\ StoreStep(t) =>
                    \A c \in Cursors :
                       /\ InMemoryGetLogs(_logs'[B], c) = InMemoryGetLogs(_logs[B], c)
                       /\ ReadLogFile(files'[B], file_cursors'[B], c)
                             = ReadLogFile(files[B], file_cursors[B], c)]_vars

\* A store_event for one run holds that run's semaphore while a read of the
\* other run, which has a file and a cache entry of its own, is in flight.
C12_Witness ==
    \E t, u \in Threads :
        /\ th[t].pc = "fs_store" /\ th[u].pc = "fs_get_read"
        /\ th[t].run # th[u].run
        /\ file_lock[th[t].run] = "held" /\ file_lock[th[u].run] = "held"
        /\ file_cursors[th[u].run] = <<1, 1>>
        /\ files[th[u].run] # NoFile

IsSuffix(s, t) == Len(s) <= Len(t) /\ s = SubSeq(t, Len(t) - Len(s) + 1, Len(t))

\* The records of the run's log file.
FileRecords(run_id) == ReadToEOF(files[run_id], 0).events

\* C13: on the same log state, the read with cursor c returns a suffix of what
\* the read with cursor c-1 returns, whichever of the two is made first. The
\* valid cursors: in-memory, c-1 not before the from-beginning cursor -1;
\* filesystem, the run has a file and c is at most its number of records.
C13_MonotonicSuffix ==
    \A run_id \in RunIds :
        /\ \A c \in {x \in Cursors : x >= 0} :
              IsSuffix(MemRead(run_id, c), MemRead(run_id, c - 1))
        /\ files[run_id] # NoFile =>
              \A c \in {x \in Cursors : x <= Len(FileRecords(run_id))} :
                 LET f == files[run_id]
                     here == FsRead(run_id, c)
                     before == FsRead(run_id, c - 1)
                     after == ReadLogFile(f, before.fc, c)
                     first == ReadLogFile(f, here.fc, c - 1)
                 IN  /\ here.st = "ok" /\ before.st = "ok"
                     /\ after.st = "ok" /\ first.st = "ok"
                     /\ IsSuffix(here.events, before.events)
                     /\ IsSuffix(after.events, before.events)
                     /\ IsSuffix(here.events, first.events)

\* A read from cursor 1 of a log of two records of different size, through the
\* offset cache: one record, where the read from cursor 0 returns both.
C13_Witness ==
    /\ ret.op = "get_logs_for_run" /\ ret.cursor = 1
    /\ stored[ret.run] = <<"e2", "e1">>
    /\ ret.fs = <<"e1">> /\ ret.mem = <<>>
    /\ file_cursors[ret.run] = <<1, 2>>
    /\ FsRead(ret.run, 0).events = <<"e2", "e1">>
    /\ \A other \in RunIds \ {ret.run} : files[other] = NoFile

\* The records of the run's log from the watchdog's start cursor on.
FromStart(w) ==
    SubSeq(stored[watchdogs[w].run], watchdogs[w].start + 1,
           Len(stored[watchdogs[w].run]))

\* C14: a watchdog's cursor is its start cursor plus the number of records
\* its fetches returned; while the callbacks of a batch run, also when one
\* raises, the cursor already counts the whole batch; no record is fetched
\* twice and none is passed to the callback twice.
C14_CursorAdvancesFirst ==
    \A w \in WatchdogIds :
        watchdogs[w] # NoWatchdog =>
            /\ watchdogs[w].cursor = watchdogs[w].start + Len(watchdogs[w].fetched)
            /\ (obs.pc = "callbacks" /\ obs.cur = w) =>
                  watchdogs[w].cursor
                      = watchdogs[w].start + Len(delivered[w]) + Len(obs.batch)
            /\ IsPrefix(watchdogs[w].fetched, FromStart(w))
            /\ IsPrefix(delivered[w], watchdogs[w].fetched)

\* The callback raised for the first record of a batch of two: the cursor is
\* past both, and a notification for the file waits in the queue.
C14_Witness ==
    \E w \in WatchdogIds :
        /\ raised = "exception in callback"
        /\ watchdogs[w].start = 0 /\ watchdogs[w].cursor = 2
        /\ watchdogs[w].fetched = <<"e1", "e2">>
        /\ delivered[w] = <<"e1">>
        /\ eventQueue = <<filepath_for_run_id(watchdogs[w].run)>>

\* The observer is about to call on_created / on_modified of watchdog w, which
\* started at cursor 0 and whose callback has returned no terminal status, for
\* a notification that comes after the n-th record of the run was appended.
NotifiedAfter(w, n) ==
    /\ obs.pc = "dispatching"
    /\ w \in obs.todo /\ Routed(w, obs.path)
    /\ \A h \in obs.todo \ {w} : ~Routed(h, obs.path)
    /\ watchdogs[w].start = 0
    /\ w \notin stopped
    /\ Len(stored[watchdogs[w].run]) >= n

\* C15: when a notification for the run's file is delivered to such a watchdog
\* after the n-th record was appended, the n-th record is eventually passed
\* to its callback, unless the callback returns a terminal status first.
C15_TailLiveness ==
    \A w \in WatchdogIds, n \in 1..MaxLen :
        NotifiedAfter(w, n) ~> (Len(delivered[w]) >= n \/ w \in stopped)

\* One notification for two appends: none of the two records delivered yet.
C15_Witness ==
    \E w \in WatchdogIds :
        /\ NotifiedAfter(w, 2)
        /\ delivered[w] = <<>>
        /\ eventQueue = <<>>

\* C16: a step in which a watchdog fetches records, advances its cursor or
\* passes a record to its callback is a step for a notification whose path is
\* the watchdog's log path; no notification makes on_created / on_modified
\* fail its path check; and what a watchdog passes to its callback are records
\* of its own run's log, from its start cursor on.
C16_Routing ==
    [][\A w \in WatchdogIds :
          /\ (\/ watchdogs'[w].cursor # watchdogs[w].cursor
              \/ watchdogs'[w].fetched # watchdogs[w].fetched
              \/ delivered'[w] # delivered[w]
              \/ (obs'.cur = w /\ obs.cur # w)) =>
                 obs.path = filepath_for_run_id(watchdogs[w].run)
          /\ raised' # "CheckError in on_modified"
          /\ watchdogs'[w] # NoWatchdog =>
                 IsPrefix(delivered'[w],
                          SubSeq(stored'[watchdogs'[w].run], watchdogs'[w].start + 1,
                                 Len(stored'[watchdogs'[w].run])))]_vars

\* The observer dispatches a notification for one run's file while a watchdog
\* of the other run, whose log has a record it has not fetched, is subscribed
\* next to a watchdog of the notified run; a notification for the base
\* directory is next in the queue.
C16_Witness ==
    \E w, v \in WatchdogIds :
        /\ obs.pc = "dispatching" /\ obs.todo = {w, v}
        /\ w \in handlers /\ v \in handlers
        /\ watchdogs[w].run # watchdogs[v].run
        /\ obs.path = filepath_for_run_id(watchdogs[v].run)
        /\ stored[watchdogs[w].run] # <<>>
        /\ watchdogs[w].start = 0 /\ watchdogs[w].fetched = <<>>
        /\ eventQueue = <<base_dir>>

\* C17: get_logs_for_run of the filesystem storage fails exactly when the
\* run has no file (IOError) or the cursor is larger than the number of records
\* in the file (EOFError in the skip loop); the caller gets the error, and
\* file_cursors is after the call what it was before.
C17_FailedReadKeepsCache ==
    [][ret'.op = "get_logs_for_run" =>
          LET r == ret'.run
              fails == files[r] = NoFile \/ ret'.cursor > Len(FileRecords(r))
          IN  /\ (ret'.st # "ok") <=> fails
              /\ fails =>
                    /\ file_cursors' = file_cursors
                    /\ ret'.st = (IF files[r] = NoFile THEN "IOError" ELSE "EOFError")
                    /\ ret'.fs = <<>>]_vars

\* A read past the end of a file of two records failed; the cache entry an
\* earlier read left is still there.
C17_Witness ==
    /\ ret.op = "get_logs_for_run" /\ ret.st = "EOFError" /\ ret.cursor = 3
    /\ stored[ret.run] = <<"e2", "e1">>
    /\ file_cursors[ret.run] = <<1, 2>>

\* The exceptions get_logs_for_run raises.
ReadErrors == {"IOError", "EOFError", "UnpicklingError"}

\* C18: an error get_logs_for_run raises in a fetch of one watchdog does not
\* stop the observer: the thread goes on to dispatch later notifications to
\* the other watchdogs.
C18_FetchErrorIsolated == raised \in ReadErrors => obs.pc # "dead"

\* C19: with any number of watchdogs per run, _watchers has an entry for the
\* run of every watchdog that is still subscribed, so that each of them can
\* unsubscribe through end_watch.
C19_WatchersEntryPerTailer ==
    \A w \in WatchdogIds :
        (w \in handlers /\ w \notin stopped) => watchdogs[w].run \in _watchers

\* Some thread is inside the with block of run_id's semaphore: a caller's
\* thread, or the observer thread in its fetch or in a call of the callback.
InWithBlock(run_id) ==
    \/ \E t \in Threads : th[t].pc \in FsPcs /\ th[t].run = run_id
    \/ obs.pc \in {"fetching", "cb_store", "cb_get"} /\ ObsRun = run_id

\* C20: while the callbacks of a batch run, the observer thread does not hold
\* the semaphore of the watched run, so that a store_event or get_logs_for_run
\* the callback makes for that run can take it unless another thread, which
\* will release it, is inside; and a call for run B can take B's semaphore
\* whenever no thread is inside B's with block, whatever is held for run A.
C20_CallbacksOutsideLock ==
    /\ obs.pc = "callbacks" =>
          \/ ENABLED CbGetAcquire
          \/ \E t \in Threads : th[t].pc \in FsPcs /\ th[t].run = ObsRun
    /\ \A B \in RunIds :
          ~InWithBlock(B) =>
             /\ file_lock[B] = "free"
             /\ \A t \in Threads :
                   th[t].pc = "idle" => ENABLED FsGetAcquire(t, B, 0)

\* A callback is inside store_event for the run it watches while another
\* thread is inside store_event for the other run.
C20_Witness ==
    /\ obs.pc = "cb_store"
    /\ file_lock[ObsRun] = "held"
    /\ \E t \in Threads : th[t].pc = "fs_store" /\ th[t].run # ObsRun
    /\ \E t \in Threads : th[t].pc = "idle"

====
